---- MODULE Spec2Model ----
(***************************************************************************)
(* Model of the weather dashboard (src/update.py, with the variants        *)
(* src/App.py and src/new.py where they differ).                            *)
(*                                                                         *)
(* One render of the dashboard body (update.py lines 223-460) is a short   *)
(* pipeline over an already fetched payload: the AQI card, the hourly      *)
(* forecast, the 5-day forecast and the "last updated" line.  The payload, *)
(* the slider value and the host's time zone are drawn in Init; each       *)
(* section of the script is one action.                                    *)
(*                                                                         *)
(* The session around it (SpecSession) has one action per interaction,     *)
(* each a whole run of the script: a click on "Get Weather" with the       *)
(* geocoding and weather requests behind st.cache_data(ttl=600), a click   *)
(* on the theme button, a move of the hourly slider; the dashboard body is *)
(* there reduced to its outcome (not drawn, drawn, stopped by KeyError).   *)
(*                                                                         *)
(* Text is modelled as a sequence of one-character strings, so that        *)
(* strftime, lstrip, title and the f-string padding are computed, not      *)
(* assumed.  Temperatures are integers (degrees Celsius).                  *)
(***************************************************************************)
EXTENDS Integers, Sequences, FiniteSets, TLC

VARIABLES
    forecast,            \* forecast['list'] of the payload: sequence of samples
    tz_offset_seconds,   \* all_data['timezone_offset']
    hours_to_show,       \* value of the hourly slider
    host_tz,             \* UTC offset of the host's local zone (naive fromtimestamp)
    aqi_data,            \* air-quality payload: [has_list, aqi]
    current_sys,         \* current["sys"]: [sunrise, sunset], epoch seconds
    pc,                  \* section of the script the render has reached
    category, color,     \* AQI card
    sunrise_time, sunset_time,            \* sunrise and sunset texts
    hours, temps, conditions, icons,      \* hourly lists
    fig_hourly,                           \* hourly chart
    days, temps_max, temps_min, day_icons, \* daily lists (`icons` is reused by the script)
    fig_daily,                            \* daily chart
    offset_display,      \* "UTC+HH:MM" text of the last line
    variant,             \* the program run by the session: "App", "new" or "update"
    theme,               \* st.session_state.theme
    weather_data,        \* st.session_state.weather_data (update.py)
    city_search_done,    \* st.session_state.city_search_done (update.py)
    city_name,           \* st.session_state.city_name (update.py)
    lat, lon, country,   \* st.session_state.lat, .lon, .country; None while unset
    geo_cache,           \* st.cache_data store of get_coordinates, by city
    weather_cache,       \* st.cache_data store of get_weather_data, by place
    now,                 \* seconds since the session started
    event,               \* the interaction that caused the last script run
    city_input,          \* text of the input box in the last run
    geo_response,        \* geocoding response received in the last run, if any
    coords,              \* value returned by get_coordinates in the last run, if called
    geo_raised,          \* get_coordinates let an exception escape in the last run
    weather_contacted,   \* get_weather_data issued its requests in the last run
    all_data,            \* value returned by get_weather_data in the last run, if called
    message,             \* error or warning shown by the last run
    displayed            \* the dashboard body in the last run: "none", "shown", "raised"

\* the variables of one render of the dashboard body, but for the slider's value
bodyVars == <<forecast, tz_offset_seconds, host_tz, aqi_data, current_sys, pc,
              category, color, sunrise_time, sunset_time, hours, temps, conditions, icons,
              fig_hourly, days, temps_max, temps_min, day_icons, fig_daily, offset_display>>

\* the variables of the session around it
sessionVars == <<variant, theme, weather_data, city_search_done, city_name, lat, lon, country,
                 geo_cache, weather_cache, now,
                 event, city_input, geo_response, coords, geo_raised, weather_contacted, all_data, message,
                 displayed>>

vars == <<bodyVars, hours_to_show, sessionVars>>

----------------------------------------------------------------------------
(* Bounds of the model *)

\* longest fixed-cadence sample list drawn
MaxCadenceLen == 17
\* longest free-form sample list drawn
MaxRichLen == 3
\* offsets drawn for the "last updated" line: whole minutes, |offset| <= 60 * this
MaxOffsetMinutes == 840
\* AQI indices drawn: -this .. this, and None
MaxAqi == 9
\* windows drawn when the hourly slice is studied as a function of any window
MaxWindow == 14
\* the session's clock stops here (seconds)
MaxNow == 600

----------------------------------------------------------------------------
(* Python values *)

\* None is the empty option, a present value v is <<v>>
None == <<>>

Some(v) == <<v>>

Min2(a, b) == IF a <= b THEN a ELSE b

Max2(a, b) == IF a >= b THEN a ELSE b

Abs(n) == IF n >= 0 THEN n ELSE -n

\* int(x / d) for a float quotient: truncation toward zero
IntOfQuotient(n, d) == IF n >= 0 THEN n \div d ELSE -((-n) \div d)

\* s[:n]
SliceTo(s, n) ==
    IF n >= 0 THEN SubSeq(s, 1, Min2(n, Len(s)))
              ELSE SubSeq(s, 1, Max2(Len(s) + n, 0))

\* bool(list)
Truthy(s) == Len(s) > 0

RECURSIVE SeqMin(_)
SeqMin(s) == IF Len(s) = 1 THEN s[1] ELSE Min2(s[1], SeqMin(Tail(s)))

RECURSIVE SeqMax(_)
SeqMax(s) == IF Len(s) = 1 THEN s[1] ELSE Max2(s[1], SeqMax(Tail(s)))

----------------------------------------------------------------------------
(* Text *)

Digits == <<"0", "1", "2", "3", "4", "5", "6", "7", "8", "9">>

\* format spec 02d for 0 <= n (wider numbers are not truncated)
RECURSIVE Decimal(_)
Decimal(n) == IF n < 10 THEN <<Digits[n + 1]>>
              ELSE Decimal(n \div 10) \o <<Digits[(n % 10) + 1]>>

Pad02d(n) == IF n < 10 THEN <<"0">> \o Decimal(n) ELSE Decimal(n)

\* str.lstrip('0')
RECURSIVE lstrip0(_)
lstrip0(s) == IF Len(s) > 0 /\ s[1] = "0" THEN lstrip0(Tail(s)) ELSE s

\* str.upper() and str.lower() of one cased character
UpperOf ==
    "a" :> "A" @@ "b" :> "B" @@ "c" :> "C" @@ "d" :> "D" @@ "e" :> "E" @@ "f" :> "F" @@ "g" :> "G"
    @@ "h" :> "H" @@ "i" :> "I" @@ "j" :> "J" @@ "k" :> "K" @@ "l" :> "L" @@ "m" :> "M" @@ "n" :> "N"
    @@ "o" :> "O" @@ "p" :> "P" @@ "q" :> "Q" @@ "r" :> "R" @@ "s" :> "S" @@ "t" :> "T" @@ "u" :> "U"
    @@ "v" :> "V" @@ "w" :> "W" @@ "x" :> "X" @@ "y" :> "Y" @@ "z" :> "Z"

LowerOf ==
    "A" :> "a" @@ "B" :> "b" @@ "C" :> "c" @@ "D" :> "d" @@ "E" :> "e" @@ "F" :> "f" @@ "G" :> "g"
    @@ "H" :> "h" @@ "I" :> "i" @@ "J" :> "j" @@ "K" :> "k" @@ "L" :> "l" @@ "M" :> "m" @@ "N" :> "n"
    @@ "O" :> "o" @@ "P" :> "p" @@ "Q" :> "q" @@ "R" :> "r" @@ "S" :> "s" @@ "T" :> "t" @@ "U" :> "u"
    @@ "V" :> "v" @@ "W" :> "w" @@ "X" :> "x" @@ "Y" :> "y" @@ "Z" :> "z"

IsLower(c) == c \in DOMAIN UpperOf

IsUpper(c) == c \in DOMAIN LowerOf

IsCased(c) == IsLower(c) \/ IsUpper(c)

ToUpper(c) == IF IsLower(c) THEN UpperOf[c] ELSE c

ToLower(c) == IF IsUpper(c) THEN LowerOf[c] ELSE c

\* str.title(): a cased character becomes upper case when the character before
\* it is not cased and lower case when it is; other characters are kept
RECURSIVE TitleFrom(_, _)
TitleFrom(s, prevCased) ==
    IF s = <<>> THEN <<>>
    ELSE LET c == s[1]
         IN  <<IF IsCased(c) THEN (IF prevCased THEN ToLower(c) ELSE ToUpper(c)) ELSE c>>
             \o TitleFrom(Tail(s), IsCased(c))

title(s) == TitleFrom(s, FALSE)

----------------------------------------------------------------------------
(* datetime *)

SecondsPerHour == 60 * 60

SecondsPerDay == 24 * SecondsPerHour

\* strftime("%a"), indexed by date.weekday() + 1 (Monday is 0)
DayAbbr == << <<"M", "o", "n">>, <<"T", "u", "e">>, <<"W", "e", "d">>, <<"T", "h", "u">>,
              <<"F", "r", "i">>, <<"S", "a", "t">>, <<"S", "u", "n">> >>

\* weekday of the UTC date of instant ts; 1 January 1970 was a Thursday
Weekday(ts) == ((ts \div SecondsPerDay) + 3) % 7

\* hour of day of instant ts read as UTC
HourOfDay(ts) == (ts % SecondsPerDay) \div SecondsPerHour

MinuteOfHour(ts) == (ts % SecondsPerHour) \div 60

strftime_a(ts) == DayAbbr[Weekday(ts) + 1]

\* strftime("%I"): 12-hour clock, zero padded
strftime_I(ts) == Pad02d(IF HourOfDay(ts) % 12 = 0 THEN 12 ELSE HourOfDay(ts) % 12)

strftime_M(ts) == Pad02d(MinuteOfHour(ts))

strftime_p(ts) == IF HourOfDay(ts) < 12 THEN <<"A", "M">> ELSE <<"P", "M">>

----------------------------------------------------------------------------
(* Helper functions of the script *)

\* aqi_map and aqi_color_map of update.py and new.py
aqi_map == [k \in 1..5 |->
    CASE k = 1 -> "Good" [] k = 2 -> "Fair" [] k = 3 -> "Moderate"
      [] k = 4 -> "Poor" [] k = 5 -> "Very Poor"]

aqi_color_map == [k \in 1..5 |->
    CASE k = 1 -> "#00aa00" [] k = 2 -> "#aaaa00" [] k = 3 -> "#cc5500"
      [] k = 4 -> "#cc0000" [] k = 5 -> "#77004c"]

\* aqi_color_map of App.py
aqi_color_map_App == [k \in 1..5 |->
    CASE k = 1 -> "#00e400" [] k = 2 -> "#ffff00" [] k = 3 -> "#ff7e00"
      [] k = 4 -> "#ff0000" [] k = 5 -> "#99004c"]

\* dict.get(key, default) on a dict with integer keys; key is an option
DictGet(d, key, default) ==
    IF key # None /\ key[1] \in DOMAIN d THEN d[key[1]] ELSE default

\* a mutant of get_aqi_category: the colour falls back to the last table entry
get_aqi_category_paired_default(aqi_value) ==
    <<DictGet(aqi_map, aqi_value, "Unknown"), DictGet(aqi_color_map, aqi_value, aqi_color_map[5])>>

get_aqi_category(aqi_value) ==
    <<DictGet(aqi_map, aqi_value, "Unknown"), DictGet(aqi_color_map, aqi_value, "#333333")>>

get_aqi_category_App(aqi_value) ==
    <<DictGet(aqi_map, aqi_value, "Unknown"), DictGet(aqi_color_map_App, aqi_value, "white")>>

\* a mutant of format_local_time: the offset is applied a second time
format_local_time_twice(timestamp, offset) ==
    LET local_ts == timestamp + offset + offset
    IN  strftime_I(local_ts) \o <<":">> \o strftime_M(local_ts) \o <<" ">> \o strftime_p(local_ts)

\* datetime.fromtimestamp(timestamp + offset, timezone.utc).strftime("%I:%M %p")
format_local_time(timestamp, offset) ==
    LET local_ts == timestamp + offset
    IN  strftime_I(local_ts) \o <<":">> \o strftime_M(local_ts) \o <<" ">> \o strftime_p(local_ts)

----------------------------------------------------------------------------
(* Hourly forecast *)

\* a mutant of num_chunks: a started 3-hour step counts
num_chunks_ceil(window) == (window + 2) \div 3

\* a mutant of num_chunks: one sample too many
num_chunks_plus_one(window) == window \div 3 + 1

\* num_chunks = hours_to_show // 3
num_chunks(window) == window \div 3

\* strftime("%a %I %p").lstrip('0') of the instant shifted by the location's offset
hour_label(item, offset) ==
    LET local_time_ts == item.dt + offset
    IN  lstrip0(strftime_a(local_time_ts) \o <<" ">> \o strftime_I(local_time_ts)
                \o <<" ">> \o strftime_p(local_time_ts))

\* strftime("%I %p").lstrip('0') of App.py and new.py
hour_label_App(item, offset) ==
    LET local_time_ts == item.dt + offset
    IN  lstrip0(strftime_I(local_time_ts) \o <<" ">> \o strftime_p(local_time_ts))

\* the four lists filled by the loop over forecast['list'][:num_chunks]
hourly_lists(list, offset, window) ==
    LET items == SliceTo(list, num_chunks(window))
    IN  [hours      |-> [i \in 1..Len(items) |-> hour_label(items[i], offset)],
         temps      |-> [i \in 1..Len(items) |-> items[i].temp],
         conditions |-> [i \in 1..Len(items) |-> title(items[i].description)],
         icons      |-> [i \in 1..Len(items) |-> items[i].icon]]

\* the loop of App.py and new.py over forecast['list'][:8]
hourly_lists_App(list, offset) ==
    LET items == SliceTo(list, 8)
    IN  [hours      |-> [i \in 1..Len(items) |-> hour_label_App(items[i], offset)],
         temps      |-> [i \in 1..Len(items) |-> items[i].temp],
         conditions |-> [i \in 1..Len(items) |-> title(items[i].description)],
         icons      |-> [i \in 1..Len(items) |-> items[i].icon]]

\* a chart that was not drawn
NoFigure == [rendered |-> FALSE, raised |-> FALSE, lo |-> 0, hi |-> 0]

\* an exception raised while the chart was built
RaisedFigure == [rendered |-> FALSE, raised |-> TRUE, lo |-> 0, hi |-> 0]

\* conditions[i].split()[0] raises IndexError when the text holds no word
HasWord(text) == \E i \in 1..Len(text) : text[i] # " "

\* a mutant of if_list: the chart is built whatever the list holds
if_list_always(list) == TRUE

\* `if hours:` and `if days:`
if_list(list) == Truthy(list)

\* the hourly chart: y axis from min(temps) - 3 to max(temps) + 3
hourly_figure(hs, ts, cs) ==
    IF ~if_list(hs) THEN NoFigure
    ELSE IF ts = <<>> \/ (\E i \in 1..Len(cs) : ~HasWord(cs[i])) THEN RaisedFigure
    ELSE [rendered |-> TRUE, raised |-> FALSE, lo |-> SeqMin(ts) - 3, hi |-> SeqMax(ts) + 3]

----------------------------------------------------------------------------
(* 5-day forecast *)

\* a mutant of host_local: the location's offset is added as well
host_local_at_location(dt, host) == dt + host + tz_offset_seconds

\* datetime.fromtimestamp(dt) without a zone: the host's local time
host_local(dt, host) == dt + host

\* a mutant of day_name: the key carries the date as well as the weekday
day_name_with_date(item, host) ==
    strftime_a(host_local(item.dt, host)) \o Decimal(host_local(item.dt, host) \div SecondsPerDay)

\* datetime.fromtimestamp(item["dt"]).strftime("%a")
day_name(item, host) == strftime_a(host_local(item.dt, host))

\* datetime.fromtimestamp(item["dt"]).hour
hour_of(item, host) == HourOfDay(host_local(item.dt, host))

\* daily_data is a dict: a sequence of entries in insertion order, one per key
HasKey(d, key) == \E i \in 1..Len(d) : d[i].key = key

IndexOfKey(d, key) == CHOOSE i \in 1..Len(d) : d[i].key = key

\* a mutant of replaces_icon: a tie replaces the running choice
replaces_icon_on_tie(current_noon_diff, noon_diff) == current_noon_diff <= noon_diff

\* `if current_noon_diff < daily_data[day_name]['noon_diff']`
replaces_icon(current_noon_diff, noon_diff) == current_noon_diff < noon_diff

\* one iteration of the loop over forecast['list']
daily_step(d, item, host) ==
    LET key == day_name(item, host)
        d1  == IF HasKey(d, key) THEN d
               ELSE Append(d, [key |-> key, temps |-> <<>>, icon |-> item.icon, noon_diff |-> 24])
        i   == IndexOfKey(d1, key)
        d2  == [d1 EXCEPT ![i].temps = Append(@, item.temp)]
        current_noon_diff == Abs(12 - hour_of(item, host))
    IN  IF replaces_icon(current_noon_diff, d2[i].noon_diff)
        THEN [d2 EXCEPT ![i].icon = item.icon, ![i].noon_diff = current_noon_diff]
        ELSE d2

\* daily_data after the loop over the first n samples
\* the loop run from daily_data d over the samples lo..hi, in order: the first
\* half is run to its value, then the second half from that value
RECURSIVE daily_loop(_, _, _, _, _)
daily_loop(d, list, host, lo, hi) ==
    IF lo > hi THEN d
    ELSE IF lo = hi THEN daily_step(d, list[lo], host)
    ELSE LET mid == (lo + hi) \div 2
         IN  CHOOSE after \in {daily_loop(before, list, host, mid + 1, hi) :
                                  before \in {daily_loop(d, list, host, lo, mid)}} : TRUE

daily_data_upto(list, host, n) == daily_loop(<<>>, list, host, 1, n)

daily_data(list, host) == daily_data_upto(list, host, Len(list))

\* a mutant of shown_days: one entry too many
shown_days_six(d) == SliceTo(d, 6)

\* list(daily_data.items())[:5]
shown_days(d) == SliceTo(d, 5)

\* a mutant of np_min: the first temperature of the group
np_min_first(ts) == ts[1]

np_min(ts) == SeqMin(ts)

np_max(ts) == SeqMax(ts)

\* the four lists filled from the first five entries of daily_data
daily_lists(list, host) ==
    LET items == shown_days(daily_data(list, host))
    IN  [days      |-> [i \in 1..Len(items) |-> items[i].key],
         temps_max |-> [i \in 1..Len(items) |-> np_max(items[i].temps)],
         temps_min |-> [i \in 1..Len(items) |-> np_min(items[i].temps)],
         icons     |-> [i \in 1..Len(items) |-> items[i].icon]]

\* a mutant of daily_step_App: every sample of a day overwrites the day's icon
daily_step_App_last_icon(d, item, host) ==
    LET key == day_name(item, host)
        d1  == IF HasKey(d, key) THEN d
               ELSE Append(d, [key |-> key, temps |-> <<>>, icon |-> item.icon])
        i   == IndexOfKey(d1, key)
    IN  [d1 EXCEPT ![i].temps = Append(@, item.temp), ![i].icon = item.icon]

\* one iteration of the loop of App.py and new.py: the icon is set when the
\* day's entry is created and never again
daily_step_App(d, item, host) ==
    LET key == day_name(item, host)
        d1  == IF HasKey(d, key) THEN d
               ELSE Append(d, [key |-> key, temps |-> <<>>, icon |-> item.icon])
        i   == IndexOfKey(d1, key)
    IN  [d1 EXCEPT ![i].temps = Append(@, item.temp)]

RECURSIVE daily_loop_App(_, _, _, _, _)
daily_loop_App(d, list, host, lo, hi) ==
    IF lo > hi THEN d
    ELSE IF lo = hi THEN daily_step_App(d, list[lo], host)
    ELSE LET mid == (lo + hi) \div 2
         IN  CHOOSE after \in {daily_loop_App(before, list, host, mid + 1, hi) :
                                  before \in {daily_loop_App(d, list, host, lo, mid)}} : TRUE

daily_data_upto_App(list, host, n) == daily_loop_App(<<>>, list, host, 1, n)

daily_data_App(list, host) == daily_data_upto_App(list, host, Len(list))

\* the four lists of App.py and new.py
daily_lists_App(list, host) ==
    LET items == shown_days(daily_data_App(list, host))
    IN  [days      |-> [i \in 1..Len(items) |-> items[i].key],
         temps_max |-> [i \in 1..Len(items) |-> np_max(items[i].temps)],
         temps_min |-> [i \in 1..Len(items) |-> np_min(items[i].temps)],
         icons     |-> [i \in 1..Len(items) |-> items[i].icon]]

\* the daily chart: y axis from np.min(temps_min) - 3 to np.max(temps_max) + 5
daily_figure(ds, tmax, tmin) ==
    IF ~if_list(ds) THEN NoFigure
    ELSE IF tmin = <<>> \/ tmax = <<>> THEN RaisedFigure
    ELSE [rendered |-> TRUE, raised |-> FALSE, lo |-> np_min(tmin) - 3, hi |-> np_max(tmax) + 5]

----------------------------------------------------------------------------
(* "Data last updated" line *)

\* int(offset_hours) with offset_hours = tz_offset_seconds / 3600
offset_hours_int(tz) == IntOfQuotient(tz, SecondsPerHour)

\* a mutant of offset_minutes_int: the minutes are dropped
offset_minutes_dropped(tz) == 0

\* int(offset_minutes) with offset_minutes = (tz_offset_seconds % 3600) / 60;
\* % takes the sign of the divisor, so the quotient is never negative
offset_minutes_int(tz) == IntOfQuotient(tz % SecondsPerHour, 60)

\* sign = '+' if offset_hours >= 0 else '-'
offset_sign(tz) == IF tz >= 0 THEN "+" ELSE "-"

\* f"UTC{sign}{abs(int(offset_hours)):02d}:{abs(int(offset_minutes)):02d}"
offset_display_of(tz) ==
    <<"U", "T", "C", offset_sign(tz)>> \o Pad02d(Abs(offset_hours_int(tz)))
    \o <<":">> \o Pad02d(Abs(offset_minutes_int(tz)))

----------------------------------------------------------------------------
(* Payloads drawn *)

\* pictogram codes of the upstream API
IconCodes == <<"01d", "02d", "03d", "04d", "09d", "10d", "11d", "13d", "50d",
               "01n", "02n", "03n", "04n", "09n", "10n", "11n", "13n", "50n">>

\* condition texts of the upstream API
Descriptions == << <<"c", "l", "e", "a", "r", " ", "s", "k", "y">>,
                   <<"l", "i", "g", "h", "t", " ", "r", "a", "i", "n">>,
                   <<"f", "e", "w", " ", "c", "l", "o", "u", "d", "s">>,
                   <<"o", "v", "e", "r", "c", "a", "s", "t", " ", "c", "l", "o", "u", "d", "s">> >>

\* temperatures of the fixed-cadence lists, repeated in this order
TempCycle == <<20, 19, 18, 17, 18, 21, 24, 23>>

\* the k-th sample of a list carries the k-th pictogram, so that the sample an
\* output icon came from can be told
IconAt(k) == IconCodes[((k - 1) % Len(IconCodes)) + 1]

DescriptionAt(k) == Descriptions[((k - 1) % Len(Descriptions)) + 1]

\* Monday 5 January 1970, 00:00 UTC
BaseTime == 4 * SecondsPerDay

\* n samples from start, one every gap seconds
Cadence(start, gap, n) ==
    [k \in 1..n |-> [dt |-> start + (k - 1) * gap,
                     temp |-> TempCycle[((k - 1) % Len(TempCycle)) + 1],
                     icon |-> IconAt(k), description |-> DescriptionAt(k)]]

\* the upstream cadence of three hours, and one sample a day
CadenceGaps == {3 * SecondsPerHour, SecondsPerDay}

\* the eight three-hour slots of the first day
CadenceStarts == {BaseTime + slot * 3 * SecondsPerHour : slot \in 0..7}

CadenceLists ==
    {Cadence(start, gap, n) : start \in CadenceStarts, gap \in CadenceGaps, n \in 0..MaxCadenceLen}

\* the lists at the upstream cadence only
UpstreamLists ==
    {Cadence(start, 3 * SecondsPerHour, n) : start \in CadenceStarts, n \in 0..MaxCadenceLen}

\* free-form lists: any order of 09:00 and 15:00 of the first day and 09:00 of the
\* second (UTC)
RichTimes == {BaseTime + h * SecondsPerHour : h \in {9, 15, 33}}

RichTemps == {10, 15, 22}

RichListsOfLen(n) ==
    {[k \in 1..n |-> [dt |-> f[k][1], temp |-> f[k][2],
                      icon |-> IconAt(k), description |-> DescriptionAt(k)]] :
        f \in [1..n -> RichTimes \X RichTemps]}

RichLists == UNION {RichListsOfLen(n) : n \in 0..MaxRichLen}

\* the end-to-end list: eight samples from midnight, three hours apart
DefaultList == Cadence(BaseTime, 3 * SecondsPerHour, 8)

\* a mutant of SliderValues: the slider starts at 0
SliderValuesFromZero == {3 * k : k \in 0..16}

\* the values the slider can return: min_value=3, max_value=48, step=3
SliderValues == {3 * k : k \in 1..16}

\* value=24
SliderDefault == 24

\* UTC, India (+05:30) and US Eastern (-05:00)
FewOffsets == {0, 19800, -18000}

HostZones == FewOffsets

\* every whole-minute offset of the range
MinuteOffsets == {60 * m : m \in (-MaxOffsetMinutes)..MaxOffsetMinutes}

AqiValues == {None} \cup {Some(v) : v \in (-MaxAqi)..MaxAqi}

\* `aqi_data and aqi_data.get("list")` is false, or aqi_data["list"][0]["main"]["aqi"]
AqiPayloads ==
    {[has_list |-> FALSE, aqi |-> None]} \cup {[has_list |-> TRUE, aqi |-> v] : v \in AqiValues}

DefaultAqi == [has_list |-> TRUE, aqi |-> Some(1)]

\* sunrise and sunset of the first day: 06:15:20 and 18:40:00 UTC
DefaultSys == [sunrise |-> BaseTime + 6 * SecondsPerHour + 15 * 60 + 20,
               sunset |-> BaseTime + 18 * SecondsPerHour + 40 * 60]

Payload(list, tz, window, host, aqi) ==
    [list |-> list, tz |-> tz, window |-> window, host |-> host, aqi |-> aqi,
     sys |-> DefaultSys]

\* payloads that vary what the 5-day forecast reads
DailyInputs ==
    {Payload(l, 0, SliderDefault, h, DefaultAqi) : l \in RichLists \cup CadenceLists, h \in HostZones}

\* payloads that vary what the hourly forecast reads
HourlyInputs ==
    {Payload(l, o, w, 0, DefaultAqi) : l \in UpstreamLists, o \in FewOffsets, w \in SliderValues}

\* payloads that vary the location's offset
OffsetInputs ==
    {Payload(DefaultList, o, SliderDefault, 0, DefaultAqi) : o \in MinuteOffsets}

\* payloads that vary the air-quality index
AqiInputs ==
    {Payload(DefaultList, 0, SliderDefault, 0, a) : a \in AqiPayloads}

\* sunrise instants shifted by every difference of two offsets, so that one
\* local instant is reached from several pairs of instant and offset
SunTimes ==
    {base + o1 - o2 : base \in {DefaultSys.sunrise, DefaultSys.sunset}, o1 \in FewOffsets,
                      o2 \in FewOffsets}

\* payloads that vary sunrise, sunset (half a day later), offset and host zone
SunInputs ==
    {[Payload(DefaultList, o, SliderDefault, h, DefaultAqi)
        EXCEPT !.sys = [sunrise |-> t, sunset |-> t + 12 * SecondsPerHour]] :
        t \in SunTimes, o \in FewOffsets, h \in HostZones}

\* descriptions with a hyphen, an apostrophe, a digit and capitals inside a word
OddDescriptions == { <<"l", "i", "g", "h", "t", "-", "r", "a", "i", "n">>,
                     <<"i", "t", "'", "s", " ", "d", "r", "y">>,
                     <<"3", "r", "d", " ", "w", "a", "v", "e">>,
                     <<"U", "V", " ", "i", "n", "d", "e", "x">> }

\* payloads of one sample that vary its description
DescriptionInputs ==
    {Payload(<<[DefaultList[1] EXCEPT !.description = d]>>, 0, SliderDefault, 0, DefaultAqi) :
        d \in OddDescriptions}

\* the upstream schema: 40 samples, three hours apart
SchemaLen == 40

\* a schema list from every hour of the first day
SchemaLists ==
    {Cadence(BaseTime + h * SecondsPerHour, 3 * SecondsPerHour, SchemaLen) : h \in 0..23}

SchemaInputs ==
    {Payload(l, 0, SliderDefault, h, DefaultAqi) : l \in SchemaLists, h \in HostZones}

Inputs ==
    DailyInputs \cup HourlyInputs \cup OffsetInputs \cup AqiInputs \cup SunInputs
        \cup DescriptionInputs \cup SchemaInputs

\* the hourly slice as a function of any window, on or off the slider's grid
AnyWindowInputs ==
    {Payload(l, 0, w, 0, DefaultAqi) : l \in UpstreamLists, w \in 0..MaxWindow}

----------------------------------------------------------------------------
(* The session: the geocoding and weather requests and their cache *)

\* str.strip() of a text of letters and spaces
RECURSIVE lstrip_spaces(_)
lstrip_spaces(s) == IF s # <<>> /\ s[1] = " " THEN lstrip_spaces(Tail(s)) ELSE s

RECURSIVE rstrip_spaces(_)
rstrip_spaces(s) ==
    IF s # <<>> /\ s[Len(s)] = " " THEN rstrip_spaces(SubSeq(s, 1, Len(s) - 1)) ELSE s

strip(s) == rstrip_spaces(lstrip_spaces(s))

\* the city names that are typed, and the texts of the input box
Pune == <<"P", "u", "n", "e">>

Oslo == <<"O", "s", "l", "o">>

Cities == {Pune, Oslo}

CityInputs == Cities \cup {<<>>, <<" ">>}

\* the default city of the input box
Anantapur == <<"A", "n", "a", "n", "t", "a", "p", "u", "r">>

\* the latitude (and longitude) upstream reports for a city
LatOf(city) == IF city = Pune THEN 18 ELSE 59

Places == {LatOf(c) : c \in Cities}

\* what requests.get(url).json() gives for the geocoding request: a transport
\* error, an error object such as {"cod": 401}, or a list whose first element
\* may lack lat, lon or name
GeoItems(city) ==
    {[lat |-> Some(LatOf(city)), lon |-> Some(LatOf(city)), name |-> Some(city)],
     [lat |-> None, lon |-> Some(LatOf(city)), name |-> Some(city)],
     [lat |-> Some(LatOf(city)), lon |-> None, name |-> Some(city)],
     [lat |-> Some(LatOf(city)), lon |-> Some(LatOf(city)), name |-> None]}

GeoResponses(city) ==
    {[kind |-> "error", items |-> <<>>], [kind |-> "dict", items |-> <<>>],
     [kind |-> "list", items |-> <<>>]}
        \cup {[kind |-> "list", items |-> <<item>>] : item \in GeoItems(city)}

\* the outcome of a call: a returned value, or an exception that escaped
Returned(v) == [raised |-> FALSE, value |-> v]

NoCoords == <<None, None, None, None>>

Raised == [raised |-> TRUE, value |-> NoCoords]

\* get_coordinates of update.py and new.py: RequestException, IndexError and
\* KeyError are caught; the first element is used when .get("lat") is not None
get_coordinates(response) ==
    IF response.kind = "error" THEN Returned(NoCoords)
    ELSE IF response.kind = "dict" THEN Returned(NoCoords)
    ELSE IF ~Truthy(response.items) THEN Returned(NoCoords)
    ELSE LET first == response.items[1]
         IN  IF first.lat = None THEN Returned(NoCoords)
             ELSE IF first.lon = None \/ first.name = None THEN Returned(NoCoords)
             ELSE Returned(<<first.lat, first.lon, first.name, Some("")>>)

\* get_coordinates of App.py: KeyError is not caught, and response[0]["lat"]
\* is indexed whenever the response is truthy
get_coordinates_App(response) ==
    IF response.kind = "error" THEN Returned(NoCoords)
    ELSE IF response.kind = "dict" THEN Raised
    ELSE IF ~Truthy(response.items) THEN Returned(NoCoords)
    ELSE LET first == response.items[1]
         IN  IF first.lat = None \/ first.lon = None \/ first.name = None THEN Raised
             ELSE Returned(<<first.lat, first.lon, first.name, Some("")>>)

get_coordinates_of(v, response) ==
    IF v = "App" THEN get_coordinates_App(response) ELSE get_coordinates(response)

\* the three requests of get_weather_data: the current conditions (a transport
\* error, cod 200 or an error object) and the forecast (a transport error, a
\* payload with the sample list or one without, such as {"cod": "429"})
WeatherResponses ==
    [current : {"error", "cod200", "cod401"}, forecast : {"error", "list", "no_list"}]

\* get_weather_data: None when a request failed or cod is not 200, else the data
get_weather_data(response) ==
    IF response.current = "error" \/ response.forecast = "error" \/ response.current # "cod200"
    THEN None
    ELSE Some(response)

\* @st.cache_data(ttl=600)
CacheTtl == 600

\* a mutant of cache_fresh: an entry never expires
cache_fresh_forever(entry, t) == entry # None

\* an entry is served while it is younger than the time to live
cache_fresh(entry, t) == entry # None /\ t - entry[1].stored_at < CacheTtl

cache_store(cache, key, value, t) ==
    [cache EXCEPT ![key] = Some([value |-> value, stored_at |-> t])]

\* a mutant of is_blank: only the empty text is refused
is_blank_empty_only(text) == text = <<>>

\* not city_input.strip()
is_blank(text) == strip(text) = <<>>

\* a mutant of toggle_theme: the theme is set to dark
toggle_theme_to_dark(t) == "dark"

\* toggle_theme: light becomes dark, anything else becomes light
toggle_theme(t) == IF t = "light" THEN "dark" ELSE "light"

\* a mutant of store_failure: city_search_done is left as it was
store_failure_keeps_done(s) == [s EXCEPT !.weather_data = None]

\* a mutant of store_failure: the place of the earlier search is forgotten
store_failure_forgets_place(s) ==
    [s EXCEPT !.weather_data = None, !.city_search_done = FALSE,
              !.lat = None, !.lon = None, !.country = None]

\* the two failure branches of fetch_and_store_data (update.py 177-178, 185-186)
store_failure(s) == [s EXCEPT !.weather_data = None, !.city_search_done = FALSE]

\* the end of fetch_and_store_data (update.py 191-196)
store_success(s, data, found) ==
    [weather_data |-> data, city_search_done |-> TRUE, city_name |-> found[3][1],
     country |-> found[4], lat |-> found[1], lon |-> found[2]]

\* the session before any interaction (update.py 18-25)
SessionStart(v) ==
    /\ variant = v
    /\ theme = "light"
    /\ weather_data = None
    /\ city_search_done = FALSE
    /\ city_name = Anantapur
    /\ lat = None
    /\ lon = None
    /\ country = None
    /\ geo_cache = [c \in CityInputs |-> None]
    /\ weather_cache = [p \in Places |-> None]
    /\ now = 0
    /\ event = "start"
    /\ city_input = Anantapur
    /\ geo_response = None
    /\ coords = None
    /\ geo_raised = FALSE
    /\ weather_contacted = FALSE
    /\ all_data = None
    /\ message = ""
    /\ displayed = "none"

----------------------------------------------------------------------------
(* One render of the dashboard body *)

InitWith(in) ==
    /\ forecast = in.list
    /\ tz_offset_seconds = in.tz
    /\ hours_to_show = in.window
    /\ host_tz = in.host
    /\ aqi_data = in.aqi
    /\ current_sys = in.sys
    /\ pc = "aqi"
    /\ category = ""
    /\ color = ""
    /\ sunrise_time = <<>>
    /\ sunset_time = <<>>
    /\ hours = <<>>
    /\ temps = <<>>
    /\ conditions = <<>>
    /\ icons = <<>>
    /\ fig_hourly = NoFigure
    /\ days = <<>>
    /\ temps_max = <<>>
    /\ temps_min = <<>>
    /\ day_icons = <<>>
    /\ fig_daily = NoFigure
    /\ offset_display = <<>>

Init == \E in \in Inputs : InitWith(in) /\ SessionStart("update")

InitAnyWindow == \E in \in AnyWindowInputs : InitWith(in) /\ SessionStart("update")

\* the AQI column: the category and colour of the index, or "AQI data
\* unavailable", then the sunrise and sunset texts
AqiCard ==
    /\ pc = "aqi"
    /\ category' = IF aqi_data.has_list THEN get_aqi_category(aqi_data.aqi)[1] ELSE ""
    /\ color' = IF aqi_data.has_list THEN get_aqi_category(aqi_data.aqi)[2] ELSE ""
    /\ sunrise_time' = format_local_time(current_sys.sunrise, tz_offset_seconds)
    /\ sunset_time' = format_local_time(current_sys.sunset, tz_offset_seconds)
    /\ pc' = "hourly"
    /\ UNCHANGED <<forecast, tz_offset_seconds, hours_to_show, host_tz, aqi_data, current_sys,
                   hours, temps, conditions, icons, fig_hourly,
                   days, temps_max, temps_min, day_icons, fig_daily, offset_display>>
    /\ UNCHANGED sessionVars

\* the hourly forecast: the loop over the slice, then the chart under `if hours:`
HourlyForecast ==
    /\ pc = "hourly"
    /\ LET r == hourly_lists(forecast, tz_offset_seconds, hours_to_show)
           fig == hourly_figure(r.hours, r.temps, r.conditions)
       IN  /\ hours' = r.hours
           /\ temps' = r.temps
           /\ conditions' = r.conditions
           /\ icons' = r.icons
           /\ fig_hourly' = fig
           /\ pc' = IF fig.raised THEN "raised" ELSE "daily"
    /\ UNCHANGED <<forecast, tz_offset_seconds, hours_to_show, host_tz, aqi_data, current_sys,
                   sunrise_time, sunset_time, category, color, days, temps_max, temps_min, day_icons, fig_daily,
                   offset_display>>
    /\ UNCHANGED sessionVars

\* the 5-day forecast: the aggregation loop, the first five days, then the chart
\* under `if days:`
DailyForecast ==
    /\ pc = "daily"
    /\ LET r == daily_lists(forecast, host_tz)
           fig == daily_figure(r.days, r.temps_max, r.temps_min)
       IN  /\ days' = r.days
           /\ temps_max' = r.temps_max
           /\ temps_min' = r.temps_min
           /\ day_icons' = r.icons
           /\ fig_daily' = fig
           /\ pc' = IF fig.raised THEN "raised" ELSE "updated"
    /\ UNCHANGED <<forecast, tz_offset_seconds, hours_to_show, host_tz, aqi_data, current_sys,
                   sunrise_time, sunset_time, category, color, hours, temps, conditions, icons, fig_hourly,
                   offset_display>>
    /\ UNCHANGED sessionVars

\* the "Data last updated" line with the offset text
UpdateTime ==
    /\ pc = "updated"
    /\ offset_display' = offset_display_of(tz_offset_seconds)
    /\ pc' = "done"
    /\ UNCHANGED <<forecast, tz_offset_seconds, hours_to_show, host_tz, aqi_data, current_sys,
                   sunrise_time, sunset_time, category, color, hours, temps, conditions, icons, fig_hourly,
                   days, temps_max, temps_min, day_icons, fig_daily>>
    /\ UNCHANGED sessionVars

Next == AqiCard \/ HourlyForecast \/ DailyForecast \/ UpdateTime

Spec == Init /\ [][Next]_vars

SpecAnyWindow == InitAnyWindow /\ [][Next]_vars

----------------------------------------------------------------------------
(* The session: one action per interaction, each a whole run of the script *)

Variants == {"App", "new", "update"}

\* the clock advances between interactions
TickSteps == {300}

\* the dashboard body on a payload: drawn, or stopped by the KeyError of
\* forecast['list'] when the forecast payload has no sample list
body_outcome(data) == IF data[1].forecast = "list" THEN "shown" ELSE "raised"

\* update.py 223: if st.session_state.city_search_done and st.session_state.weather_data
dashboard_of(done, data) == IF done /\ Truthy(data) THEN body_outcome(data) ELSE "none"

\* a slider that is not drawn in a run may keep or lose its value
SliderAfter(shown) ==
    IF variant = "update" /\ shown = "none" THEN {hours_to_show, SliderDefault}
    ELSE {hours_to_show}

\* a click on "Get Weather" with the text of the input box: fetch_and_store_data
\* and the conditional dashboard of update.py, the body of `if st.button` of
\* App.py and new.py
ClickGetWeather(text) ==
    LET blank == is_blank(text)
        geo_hit == ~blank /\ cache_fresh(geo_cache[text], now)
        before == [weather_data |-> weather_data, city_search_done |-> city_search_done,
                   city_name |-> city_name, country |-> country, lat |-> lat, lon |-> lon]
    IN  \E g \in IF blank \/ geo_hit THEN {[kind |-> "error", items |-> <<>>]}
                 ELSE GeoResponses(text) :
        \E geo_out \in {IF blank THEN Returned(NoCoords)
                        ELSE IF geo_hit THEN Returned(geo_cache[text][1].value)
                        ELSE get_coordinates_of(variant, g)} :
        LET found_lat == geo_out.value[1]
            calls_weather == ~blank /\ ~geo_out.raised /\ found_lat # None
            weather_hit == calls_weather /\ cache_fresh(weather_cache[found_lat[1]], now)
        IN  \E w \in IF calls_weather /\ ~weather_hit THEN WeatherResponses
                     ELSE {[current |-> "error", forecast |-> "error"]} :
            \E data \in {IF ~calls_weather THEN None
                         ELSE IF weather_hit THEN weather_cache[found_lat[1]][1].value
                         ELSE get_weather_data(w)} :
            LET failed == blank \/ geo_out.raised \/ found_lat = None \/ data = None
            IN  \E after \in {IF variant # "update" \/ blank THEN before
                              ELSE IF failed THEN store_failure(before)
                              ELSE store_success(before, data, geo_out.value)} :
                \E shown \in {IF variant = "update"
                              THEN dashboard_of(after.city_search_done, after.weather_data)
                              ELSE IF failed THEN "none" ELSE body_outcome(data)} :
                /\ event' = "search"
                /\ city_input' = text
                /\ geo_response' = IF blank \/ geo_hit THEN None ELSE Some(g)
                /\ geo_cache' = IF blank \/ geo_hit \/ geo_out.raised THEN geo_cache
                                ELSE cache_store(geo_cache, text, geo_out.value, now)
                /\ coords' = IF blank \/ geo_out.raised THEN None ELSE Some(geo_out.value)
                /\ geo_raised' = geo_out.raised
                /\ weather_contacted' = (calls_weather /\ ~weather_hit)
                /\ weather_cache' = IF calls_weather /\ ~weather_hit
                                    THEN cache_store(weather_cache, found_lat[1], data, now)
                                    ELSE weather_cache
                /\ all_data' = IF calls_weather THEN Some(data) ELSE None
                /\ message' = IF blank THEN "enter a city"
                              ELSE IF geo_out.raised THEN "exception"
                              ELSE IF found_lat = None THEN "not found"
                              ELSE IF data = None THEN "incomplete data"
                              ELSE ""
                /\ weather_data' = after.weather_data
                /\ city_search_done' = after.city_search_done
                /\ city_name' = after.city_name
                /\ country' = after.country
                /\ lat' = after.lat
                /\ lon' = after.lon
                /\ displayed' = shown
                /\ hours_to_show' \in SliderAfter(shown)
                /\ UNCHANGED <<bodyVars, variant, theme, now>>

\* a run of the script in which "Get Weather" was not clicked
Rerun ==
    LET shown == IF variant = "update" THEN dashboard_of(city_search_done, weather_data)
                 ELSE "none"
    IN  /\ displayed' = shown
        /\ geo_response' = None
        /\ coords' = None
        /\ geo_raised' = FALSE
        /\ weather_contacted' = FALSE
        /\ all_data' = None
        /\ message' = ""
        /\ UNCHANGED <<bodyVars, variant, city_input, weather_data, city_search_done,
                       city_name, lat, lon, country, geo_cache, weather_cache, now>>

\* a click on the theme button of new.py and update.py: toggle_theme, then a run
ToggleTheme ==
    /\ variant \in {"new", "update"}
    /\ theme' = toggle_theme(theme)
    /\ event' = "toggle"
    /\ Rerun
    /\ hours_to_show' \in SliderAfter(displayed')

\* the slider positions that are tried: the two ends and the default
SliderMoves ==
    {v \in SliderValues : \/ \A u \in SliderValues : v <= u
                          \/ \A u \in SliderValues : v >= u
                          \/ v = SliderDefault}

\* the hourly slider of update.py is moved to another position, then a run
MoveSlider ==
    /\ variant = "update"
    /\ displayed # "none"
    /\ hours_to_show' \in SliderMoves \ {hours_to_show}
    /\ event' = "slider"
    /\ Rerun
    /\ UNCHANGED theme

\* time passes
Tick(d) ==
    /\ now + d <= MaxNow
    /\ now' = now + d
    /\ UNCHANGED <<bodyVars, hours_to_show, variant, theme, weather_data, city_search_done,
                   city_name, lat, lon, country, geo_cache, weather_cache, event, city_input, geo_response, coords, geo_raised,
                   weather_contacted, all_data, message, displayed>>

InitSession ==
    /\ InitWith(Payload(DefaultList, 0, SliderDefault, 0, DefaultAqi))
    /\ \E v \in Variants : SessionStart(v)

NextSession ==
    \/ \E text \in CityInputs : ClickGetWeather(text)
    \/ ToggleTheme
    \/ MoveSlider
    \/ \E d \in TickSteps : Tick(d)

SpecSession == InitSession /\ [][NextSession]_vars

----------------------------------------------------------------------------
(* Properties *)

\* the sections after which the hourly lists are final
AfterHourly == pc \in {"daily", "updated", "done"}

\* the sections after which the daily lists are final
AfterDaily == pc \in {"updated", "done"}

\* the day key of the i-th input sample, and the input positions of one key
KeyAt(i) == day_name(forecast[i], host_tz)

Keys == {KeyAt(i) : i \in 1..Len(forecast)}

Group(key) == {i \in 1..Len(forecast) : KeyAt(i) = key}

FirstIndex(key) == CHOOSE i \in Group(key) : \A j \in Group(key) : i <= j

\* texts the properties name
UTC0500PLUS == <<"U", "T", "C", "+", "0", "5", ":", "0", "0">>

UTC0530PLUS == <<"U", "T", "C", "+", "0", "5", ":", "3", "0">>

UTC0500MINUS == <<"U", "T", "C", "-", "0", "5", ":", "0", "0">>

MON3AM == <<"M", "o", "n", " ", "3", " ", "A", "M">>

UTC0000 == <<"U", "T", "C", "+", "0", "0", ":", "0", "0">>

\* C1: the hourly slice holds exactly min(window / 3, len(samples)) points and the
\* i-th point carries the temperature and icon of the i-th input sample; window 24
\* gives min(8, len) points and window 9 gives min(3, len); the fixed slice of
\* App.py is the window-24 case.
C1_SliceHourlyCount ==
    AfterHourly =>
        /\ \E count \in 0..hours_to_show :
              /\ 3 * count = hours_to_show
              /\ Len(hours) = Min2(count, Len(forecast))
        /\ Len(temps) = Len(hours)
        /\ Len(icons) = Len(hours)
        /\ \A i \in 1..Len(hours) :
              temps[i] = forecast[i].temp /\ icons[i] = forecast[i].icon
        /\ hours_to_show = 24 => Len(hours) = Min2(8, Len(forecast))
        /\ hours_to_show = 9 => Len(hours) = Min2(3, Len(forecast))
        /\ LET app == hourly_lists_App(forecast, tz_offset_seconds)
           IN  /\ Len(app.temps) = Min2(8, Len(forecast))
               /\ \A i \in 1..Len(app.temps) :
                     app.temps[i] = forecast[i].temp /\ app.icons[i] = forecast[i].icon

\* a render with window 24 over more than 8 samples that kept the first 8
C1_Witness ==
    /\ pc = "done"
    /\ hours_to_show = 24
    /\ Len(forecast) > 8
    /\ Len(hours) = 8
    /\ icons[8] = forecast[8].icon

\* C2 as stated: offset 19800 is shown as "UTC+05:00", -18000 as "UTC-05:00" and
\* 0 as "UTC+00:00".
C2_AsStated ==
    pc = "done" =>
        /\ tz_offset_seconds = 19800 => offset_display = UTC0500PLUS
        /\ tz_offset_seconds = -18000 => offset_display = UTC0500MINUS
        /\ tz_offset_seconds = 0 => offset_display = UTC0000

\* C2, amended: offset 19800 is shown as "UTC+05:30", -18000 as "UTC-05:00" and 0
\* as "UTC+00:00".
C2_OffsetExamples ==
    pc = "done" =>
        /\ tz_offset_seconds = 19800 => offset_display = UTC0530PLUS
        /\ tz_offset_seconds = -18000 => offset_display = UTC0500MINUS
        /\ tz_offset_seconds = 0 => offset_display = UTC0000

\* the line was rendered for offset 19800
C2_Witness ==
    /\ pc = "done"
    /\ tz_offset_seconds = 19800
    /\ offset_display = UTC0530PLUS

\* C3: for every whole-minute offset in -50400..50400 the text is "UTC", the sign
\* ('-' exactly when the offset is negative), |offset| div 3600 and
\* (|offset| mod 3600) div 60, each on two digits.
C3_OffsetSignConsistent ==
    (pc = "done" /\ tz_offset_seconds % 60 = 0 /\ Abs(tz_offset_seconds) <= 50400) =>
        offset_display =
            <<"U", "T", "C", IF tz_offset_seconds < 0 THEN "-" ELSE "+">>
            \o Pad02d(Abs(tz_offset_seconds) \div 3600)
            \o <<":">> \o Pad02d((Abs(tz_offset_seconds) % 3600) \div 60)

\* C4: the daily summary never holds more than 5 entries; its entries are the
\* first 5 distinct day keys in the order each was first met in the input, and a
\* key first met after 5 keys exist neither appears nor displaces an earlier one.
C4_DailyFirstFiveKeys ==
    AfterDaily =>
        /\ Len(days) <= 5
        /\ Len(days) = Min2(5, Cardinality(Keys))
        /\ \A j \in 1..Len(days) : days[j] \in Keys
        /\ \A j, k \in 1..Len(days) : j < k => FirstIndex(days[j]) < FirstIndex(days[k])
        /\ \A key \in Keys :
              (\A j \in 1..Len(days) : days[j] # key) =>
                  \A j \in 1..Len(days) : FirstIndex(days[j]) < FirstIndex(key)

\* a summary of an input with more than 5 distinct day keys
C4_Witness ==
    /\ pc = "done"
    /\ Cardinality(Keys) > 5
    /\ Len(days) = 5
    /\ days[1] = KeyAt(1)

\* C5: for every emitted day, the minimum and the maximum shown are the least and
\* the greatest temperature of all input samples with that day key, each attained
\* by a sample of the group.
C5_DailyMinMax ==
    AfterDaily =>
        /\ Len(temps_min) = Len(days)
        /\ Len(temps_max) = Len(days)
        /\ \A j \in 1..Len(days) :
              /\ \E i \in Group(days[j]) : forecast[i].temp = temps_min[j]
              /\ \E i \in Group(days[j]) : forecast[i].temp = temps_max[j]
              /\ \A i \in Group(days[j]) :
                    temps_min[j] <= forecast[i].temp /\ forecast[i].temp <= temps_max[j]
              /\ temps_min[j] <= temps_max[j]
              /\ Cardinality(Group(days[j])) = 1 => temps_min[j] = temps_max[j]

\* one day with the temperatures 10, 22, 15 in this order
C5_Witness ==
    /\ pc = "done"
    /\ Len(forecast) = 3
    /\ forecast[1].temp = 10 /\ forecast[2].temp = 22 /\ forecast[3].temp = 15
    /\ Len(days) = 1
    /\ temps_min = <<10>>
    /\ temps_max = <<22>>

\* the distance of the i-th sample's hour from noon
NoonDistance(i) == Abs(12 - hour_of(forecast[i], host_tz))

\* the first sample of a group, in input order, at the least distance from noon
ClosestToNoon(key) ==
    CHOOSE i \in Group(key) :
        /\ \A k \in Group(key) : NoonDistance(i) <= NoonDistance(k)
        /\ \A k \in Group(key) : k < i => NoonDistance(k) > NoonDistance(i)

\* C6: the icon of a day is the icon of the first sample, in input order, that
\* attains the least distance abs(12 - hour) of the group; a tie keeps the
\* earlier sample.
C6_NoonIconFirstClosest ==
    AfterDaily =>
        /\ Len(day_icons) = Len(days)
        /\ \A j \in 1..Len(days) : day_icons[j] = forecast[ClosestToNoon(days[j])].icon

\* two samples of one day at 09:00 and 15:00, the icon being the earlier one's
C6_Witness ==
    /\ pc = "done"
    /\ Len(forecast) = 2
    /\ KeyAt(1) = KeyAt(2)
    /\ hour_of(forecast[1], host_tz) = 9
    /\ hour_of(forecast[2], host_tz) = 15
    /\ forecast[1].icon # forecast[2].icon
    /\ day_icons = <<forecast[1].icon>>

\* C7: every hourly label is the weekday abbreviation, the 12-hour hour without
\* its leading zero and the AM/PM marker; the second label of eight samples from
\* Monday 00:00 with offset 0 is "Mon 3 AM".
C7_HourLabelZeroStripped ==
    AfterHourly =>
        /\ \A i \in 1..Len(hours) :
              LET local == forecast[i].dt + tz_offset_seconds
              IN  hours[i] = strftime_a(local) \o <<" ">> \o lstrip0(strftime_I(local))
                             \o <<" ">> \o strftime_p(local)
        /\ (forecast = DefaultList /\ tz_offset_seconds = 0 /\ hours_to_show = 24) =>
              hours[2] = MON3AM

\* C8: with an empty sample list the hourly and the daily lists are empty, no
\* chart is rendered and nothing is raised.
C8_EmptyListNoChart ==
    forecast = <<>> =>
        /\ pc # "raised"
        /\ AfterHourly => (hours = <<>> /\ temps = <<>> /\ fig_hourly = NoFigure)
        /\ AfterDaily => (days = <<>> /\ temps_min = <<>> /\ temps_max = <<>>
                          /\ fig_daily = NoFigure)

\* a render of an empty list that ran to its end
C8_Witness ==
    /\ pc = "done"
    /\ forecast = <<>>
    /\ hours = <<>>
    /\ days = <<>>

AqiLabels == <<"Good", "Fair", "Moderate", "Poor", "Very Poor">>

AqiColors == <<"#00aa00", "#aaaa00", "#cc5500", "#cc0000", "#77004c">>

AqiColorsApp == <<"#00e400", "#ffff00", "#ff7e00", "#ff0000", "#99004c">>

\* C10: index 1..5 maps to Good, Fair, Moderate, Poor, Very Poor with its paired
\* colour, every other value (None included) to "Unknown" with the neutral colour,
\* and the label is "Unknown" exactly when the colour is the neutral one.
C10_AqiTable ==
    (pc # "aqi" /\ aqi_data.has_list) =>
        LET v == aqi_data.aqi
            app == get_aqi_category_App(v)
        IN  /\ \A k \in 1..5 :
                  v = Some(k) => /\ category = AqiLabels[k] /\ color = AqiColors[k]
                                 /\ app = <<AqiLabels[k], AqiColorsApp[k]>>
            /\ (\A k \in 1..5 : v # Some(k)) =>
                  /\ category = "Unknown" /\ color = "#333333"
                  /\ app = <<"Unknown", "white">>
            /\ category = "Unknown" <=> color = "#333333"
            /\ app[1] = "Unknown" <=> app[2] = "white"

\* the card was rendered for a missing index
C10_Witness ==
    /\ pc = "done"
    /\ aqi_data.has_list
    /\ aqi_data.aqi = None
    /\ category = "Unknown"

\* the 12-hour text of a time of day given in seconds after midnight
ClockText(second_of_day) ==
    LET h == second_of_day \div 3600
        m == (second_of_day - 3600 * h) \div 60
    IN  Pad02d(IF h = 0 THEN 12 ELSE IF h > 12 THEN h - 12 ELSE h)
        \o <<":">> \o Pad02d(m) \o <<" ">> \o (IF h >= 12 THEN <<"P", "M">> ELSE <<"A", "M">>)

\* C11: the sunrise and sunset texts are the 12-hour HH:MM AM/PM rendering of
\* (t + o) mod 86400 read as a UTC time of day, whatever the host's zone, and any
\* other pair of instant and offset with the same sum gives the same text.
C11_LocalClockOfSum ==
    pc # "aqi" =>
        /\ sunrise_time = ClockText((current_sys.sunrise + tz_offset_seconds) % 86400)
        /\ sunset_time = ClockText((current_sys.sunset + tz_offset_seconds) % 86400)
        /\ \A t2 \in SunTimes, o2 \in FewOffsets :
              t2 + o2 = current_sys.sunrise + tz_offset_seconds =>
                  format_local_time(t2, o2) = sunrise_time

\* sunrise 06:15 UTC shown at offset +05:30 on a host in another zone
C11_Witness ==
    /\ pc = "done"
    /\ current_sys.sunrise = DefaultSys.sunrise
    /\ tz_offset_seconds = 19800
    /\ host_tz = -18000
    /\ sunrise_time = <<"1", "1", ":", "4", "5", " ", "A", "M">>

\* the four daily lists as one record
DailyOutputs == [days |-> days, temps_max |-> temps_max, temps_min |-> temps_min,
                 icons |-> day_icons]

\* C12: the hourly slice and the daily summary are functions of the sample list
\* and the parameters alone: evaluated on a host in any other zone, the same
\* list gives the same daily lists (the hourly slice reads no host value).
C12_SameResultOnAnyHost ==
    AfterDaily => \A h \in HostZones : daily_lists(forecast, h) = DailyOutputs

\* the day and hour of the i-th sample read without the location's offset
OffsetFreeDay(i) == strftime_a(forecast[i].dt + host_tz)

OffsetFreeHour(i) == HourOfDay(forecast[i].dt + host_tz)

OffsetFreeGroup(i) == {j \in 1..Len(forecast) : OffsetFreeDay(j) = OffsetFreeDay(i)}

\* the positions at which a day appears for the first time, and the n-th of them
OffsetFreeFirsts == {i \in 1..Len(forecast) : \A j \in 1..(i - 1) : OffsetFreeDay(j) # OffsetFreeDay(i)}

NthFirst(n) == CHOOSE i \in OffsetFreeFirsts : Cardinality({j \in OffsetFreeFirsts : j <= i}) = n

\* the first position of i's day at the least distance from noon
OffsetFreeNoon(i) ==
    CHOOSE j \in OffsetFreeGroup(i) :
        \A k \in OffsetFreeGroup(i) :
            \/ Abs(12 - OffsetFreeHour(j)) < Abs(12 - OffsetFreeHour(k))
            \/ Abs(12 - OffsetFreeHour(j)) = Abs(12 - OffsetFreeHour(k)) /\ j <= k

\* C13: whatever the location's offset, the daily lists are those of the
\* samples read without it (day keys, minimum, maximum and icon of each of the
\* first five days), while every hourly label differs from the label the same
\* sample has at any offset an hour or more away.
C13_DailyIgnoresOffset ==
    /\ AfterDaily =>
          /\ Len(days) = Min2(5, Cardinality(OffsetFreeFirsts))
          /\ \A n \in 1..Len(days) :
                LET i == NthFirst(n)
                    group_temps == {forecast[j].temp : j \in OffsetFreeGroup(i)}
                IN  /\ days[n] = OffsetFreeDay(i)
                    /\ temps_min[n] \in group_temps
                    /\ temps_max[n] \in group_temps
                    /\ \A t \in group_temps : temps_min[n] <= t /\ t <= temps_max[n]
                    /\ day_icons[n] = forecast[OffsetFreeNoon(i)].icon
    /\ AfterHourly =>
          \A o \in FewOffsets : \A i \in 1..Len(hours) :
              Abs(o - tz_offset_seconds) >= SecondsPerHour => hours[i] # hour_label(forecast[i], o)

\* a list of two days shown at offset +05:30: the days are those of the
\* unshifted instants, the first label is not the label at offset 0
C13_Witness ==
    /\ pc = "done"
    /\ tz_offset_seconds = 19800
    /\ Len(forecast) = MaxCadenceLen
    /\ forecast[1].dt = BaseTime + 21 * SecondsPerHour
    /\ days = << <<"M", "o", "n">>, <<"T", "u", "e">>, <<"W", "e", "d">> >>
    /\ hours[1] = <<"T", "u", "e", " ", "0", "2", " ", "A", "M">>

\* the first letter of each whitespace-separated word upper-cased, the rest kept
CapitalizeWords(s) ==
    [i \in 1..Len(s) |->
        IF i = 1 \/ s[i - 1] = " " THEN ToUpper(s[i]) ELSE s[i]]

\* C16: the description of every hourly point is the sample's description with
\* the first letter of each whitespace-separated word upper-cased and every
\* other character unchanged.
C16_DescriptionWordsCapitalized ==
    AfterHourly =>
        \A i \in 1..Len(conditions) : conditions[i] = CapitalizeWords(forecast[i].description)

\* the four hourly lists as one record
HourlyOutputs == [hours |-> hours, temps |-> temps, conditions |-> conditions, icons |-> icons]

HostDate(i) == (forecast[i].dt + host_tz) \div SecondsPerDay

WeekdayNo(i) == (HostDate(i) + 3) % 7

\* the list is at the three-hour cadence
AtUpstreamCadence ==
    \A i \in 1..(Len(forecast) - 1) : forecast[i + 1].dt - forecast[i].dt = 3 * SecondsPerHour

\* C24: for 40 samples three hours apart the daily summary has exactly five
\* entries whatever the starting hour, in the order of their dates; each entry
\* aggregates the samples of one date only, all of them, and the samples left
\* out are those of a later, sixth date.
C24_SchemaGivesFiveWholeDays ==
    AfterDaily /\ Len(forecast) = 40 /\ AtUpstreamCadence =>
        /\ Len(days) = 5
        /\ \A n \in 1..Len(days) :
              LET first == FirstIndex(days[n])
                  same_date == {j \in 1..Len(forecast) : HostDate(j) = HostDate(first)}
              IN  /\ \E j \in same_date : temps_min[n] = forecast[j].temp
                  /\ \E j \in same_date : temps_max[n] = forecast[j].temp
                  /\ \A j \in same_date :
                        temps_min[n] <= forecast[j].temp /\ forecast[j].temp <= temps_max[n]
                  /\ same_date = first..(first + Cardinality(same_date) - 1)
                  /\ \A j \in same_date : strftime_a(forecast[j].dt + host_tz) = days[n]
                  /\ \A j \in 1..Len(forecast) :
                        strftime_a(forecast[j].dt + host_tz) = days[n] => j \in same_date
                  /\ n < Len(days) => HostDate(first) < HostDate(FirstIndex(days[n + 1]))
        /\ \A j \in 1..Len(forecast) :
              (\A n \in 1..Len(days) : strftime_a(forecast[j].dt + host_tz) # days[n]) =>
                  \A n \in 1..Len(days) : HostDate(j) > HostDate(FirstIndex(days[n]))

\* a schema list that starts at 13:00: Monday is partial, Saturday is dropped
C24_Witness ==
    /\ pc = "done"
    /\ Len(forecast) = 40
    /\ forecast[1].dt = BaseTime + 13 * SecondsPerHour
    /\ host_tz = 0
    /\ days = <<DayAbbr[1], DayAbbr[2], DayAbbr[3], DayAbbr[4], DayAbbr[5]>>
    /\ \E j \in 1..Len(forecast) : strftime_a(forecast[j].dt + host_tz) = DayAbbr[6]

\* the positions at which a weekday appears for the first time, and the k-th
WeekdayFirsts == {i \in 1..Len(forecast) : \A j \in 1..(i - 1) : WeekdayNo(j) # WeekdayNo(i)}

KthWeekdayFirst(k) ==
    CHOOSE i \in WeekdayFirsts : Cardinality({j \in WeekdayFirsts : j <= i}) = k

SameWeekday(i) == {j \in 1..Len(forecast) : WeekdayNo(j) = WeekdayNo(i)}

\* C25: there is one bucket per weekday among the samples, at most seven, in
\* update.py as in App.py; the bucket of a weekday holds the temperatures of
\* all samples of that weekday, whatever their dates, and the minimum and
\* maximum shown are taken over all of them.
C25_BucketsByWeekdayOnly ==
    AfterDaily =>
        LET buckets == daily_data(forecast, host_tz)
            buckets_App == daily_data_App(forecast, host_tz)
        IN  /\ Len(buckets) = Cardinality(WeekdayFirsts)
            /\ Len(buckets_App) = Cardinality(WeekdayFirsts)
            /\ Len(buckets) <= 7
            /\ \A k \in 1..Len(buckets) :
                  LET members == SameWeekday(KthWeekdayFirst(k))
                  IN  /\ buckets[k].key = DayAbbr[WeekdayNo(KthWeekdayFirst(k)) + 1]
                      /\ Len(buckets[k].temps) = Cardinality(members)
                      /\ {buckets[k].temps[t] : t \in 1..Len(buckets[k].temps)}
                            = {forecast[j].temp : j \in members}
                      /\ buckets_App[k].temps = buckets[k].temps
                      /\ k <= Len(days) =>
                            /\ \A j \in members : temps_min[k] <= forecast[j].temp
                            /\ \A j \in members : temps_max[k] >= forecast[j].temp

\* seventeen daily samples from a Monday: the Monday entry has its minimum from
\* the first Monday and its maximum from the third
C25_Witness ==
    /\ pc = "done"
    /\ Len(forecast) = 17
    /\ forecast[1].dt = BaseTime
    /\ forecast[15].dt = BaseTime + 14 * SecondsPerDay
    /\ host_tz = 0
    /\ days[1] = DayAbbr[1]
    /\ Len(daily_data(forecast, host_tz)) = 7
    /\ temps_min[1] = forecast[1].temp
    /\ temps_max[1] = forecast[15].temp
    /\ forecast[1].temp < forecast[15].temp

----------------------------------------------------------------------------
(* Properties of the session *)

\* the payload the dashboard body of the last run worked on
ShownPayload == IF variant = "update" THEN weather_data ELSE all_data[1]

\* C14: when get_weather_data has no usable data (a request failed, cod is not
\* 200, or the forecast payload has no sample list) the run shows the error and
\* no dashboard, and the dashboard body only ever runs on a forecast with a
\* sample list.
C14_AbsentDataEndsInError ==
    /\ all_data # None /\ (all_data[1] = None \/ all_data[1][1].forecast # "list") =>
          message = "incomplete data" /\ displayed = "none"
    /\ displayed # "none" => ShownPayload[1].forecast = "list"

\* a geocoding response that carries no usable first result
GeoFailure(response) ==
    \/ response.kind # "list"
    \/ response.items = <<>>
    \/ \E f \in {"lat", "lon", "name"} : response.items[1][f] = None

\* C15: in every variant get_coordinates never raises, and every failed
\* geocoding response is returned as (None, None, None, None).
C15_GeocodingFailureIsAbsence ==
    /\ ~geo_raised
    /\ geo_response # None /\ GeoFailure(geo_response[1]) => coords = Some(NoCoords)

\* C17: the hourly window is a multiple of 3 from 3 to 48, 24 before the slider
\* is touched, so hours_to_show // 3 is in 1..16 and 8 by default.
C17_WindowOnSliderGrid ==
    /\ hours_to_show \in 3..48
    /\ hours_to_show % 3 = 0
    /\ num_chunks(hours_to_show) \in 1..16
    /\ event = "start" => hours_to_show = 24 /\ num_chunks(hours_to_show) = 8

\* the slider at its upper end, the dashboard drawn
C17_Witness ==
    /\ variant = "update"
    /\ event = "slider"
    /\ displayed = "shown"
    /\ hours_to_show = 48
    /\ num_chunks(hours_to_show) = 16

\* C19: in new.py and update.py, a run that is not a new search keeps a
\* displayed dashboard displayed, and the theme is the one last chosen.
C19_DashboardKeptOnRerun ==
    [][(variant \in {"new", "update"} /\ displayed = "shown" /\ now' = now /\ event' # "search") =>
          /\ displayed' = "shown"
          /\ theme' = IF event' = "toggle" THEN (IF theme = "light" THEN "dark" ELSE "light")
                      ELSE theme]_vars

\* C20: a search finds each call's entry in the store; an entry younger than
\* 600 seconds is returned without a request, failure values included, and
\* otherwise the request is issued again.
C20_CacheServesWithinTtl ==
    [][(event' = "search" /\ now' = now /\ strip(city_input') # <<>>) =>
          LET e == geo_cache[city_input']
              young == e # None /\ now - e[1].stored_at < 600
          IN  /\ young => geo_response' = None /\ coords' = Some(e[1].value) /\ geo_cache' = geo_cache
              /\ ~young => geo_response' # None
              /\ all_data' # None =>
                    LET f == weather_cache[coords'[1][1][1]]
                        fresh == f # None /\ now - f[1].stored_at < 600
                    IN  /\ fresh => ~weather_contacted' /\ all_data' = Some(f[1].value)
                                    /\ weather_cache' = weather_cache
                        /\ ~fresh => weather_contacted']_vars

\* 300 seconds after a failed geocoding the same city is searched again: no
\* request is made and the stored all-None tuple is returned
C20_Witness ==
    /\ event = "search"
    /\ now = 300
    /\ city_input = Oslo
    /\ geo_cache[Oslo] = Some([value |-> NoCoords, stored_at |-> 0])
    /\ geo_response = None
    /\ coords = Some(NoCoords)

\* C21: in update.py, city_search_done implies that weather_data, lat, lon,
\* country and city_name are set and belong to one search: the coordinates are
\* those of the named city and the payload is the one held for them.
C21_StoredSearchIsOneSearch ==
    variant = "update" /\ city_search_done =>
        /\ weather_data # None
        /\ lat # None /\ lon # None /\ country # None
        /\ city_name \in Cities
        /\ lat = Some(LatOf(city_name))
        /\ lon = Some(LatOf(city_name))
        /\ weather_cache[lat[1]] # None
        /\ weather_cache[lat[1]][1].value = weather_data

\* Oslo is displayed after Pune had been fetched
C21_Witness ==
    /\ variant = "update"
    /\ city_search_done
    /\ city_name = Oslo
    /\ lat = Some(LatOf(Oslo))
    /\ weather_cache[LatOf(Pune)] # None
    /\ displayed = "shown"

\* C22: in update.py, a search that ends in "not found" or "incomplete data"
\* leaves weather_data None and city_search_done False, no dashboard is drawn,
\* and city_name, lat, lon and country are as before the search.
C22_FailedSearchClearsResultOnly ==
    [][(variant = "update" /\ now' = now /\ event' = "search"
            /\ message' \in {"not found", "incomplete data"}) =>
          /\ weather_data' = None
          /\ city_search_done' = FALSE
          /\ displayed' = "none"
          /\ UNCHANGED <<city_name, lat, lon, country>>]_vars

\* a failed search after a successful one: the place of the earlier search stays
C22_Witness ==
    /\ variant = "update"
    /\ event = "search"
    /\ message = "not found"
    /\ city_input = Oslo
    /\ weather_data = None
    /\ ~city_search_done
    /\ city_name = Pune
    /\ lat = Some(LatOf(Pune))

\* C23: a click with an empty or all-space city makes no geocoding and no
\* weather call, shows the message, and in update.py changes no session key,
\* so a dashboard that was displayed is displayed again.
C23_BlankInputChangesNothing ==
    [][(now' = now /\ event' = "search" /\ city_input' \in {<<>>, <<" ">>}) =>
          /\ coords' = None /\ geo_response' = None /\ ~geo_raised'
          /\ all_data' = None /\ ~weather_contacted'
          /\ UNCHANGED <<geo_cache, weather_cache>>
          /\ message' = "enter a city"
          /\ variant = "update" =>
                /\ UNCHANGED <<theme, weather_data, city_search_done, city_name, lat, lon,
                               country>>
                /\ displayed' = displayed]_vars

\* an all-space city typed while a dashboard is displayed
C23_Witness ==
    /\ variant = "update"
    /\ event = "search"
    /\ city_input = <<" ">>
    /\ message = "enter a city"
    /\ city_search_done
    /\ displayed = "shown"

\* C26: the theme is light or dark and light at the start; a click on the
\* theme button flips it, a second click restores it, and the click changes
\* no other session key.
C26_ToggleFlipsThemeOnly ==
    [][/\ theme \in {"light", "dark"}
       /\ theme' \in {"light", "dark"}
       /\ event = "start" => theme = "light"
       /\ (now' = now /\ event' = "toggle") =>
             /\ theme' = (IF theme = "light" THEN "dark" ELSE "light")
             /\ toggle_theme(theme') = theme
             /\ UNCHANGED <<weather_data, city_search_done, city_name, lat, lon, country>>]_vars

\* the theme is dark after a click, with a result stored
C26_Witness ==
    /\ variant = "update"
    /\ event = "toggle"
    /\ theme = "dark"
    /\ city_search_done
    /\ weather_data # None

====
